---- MODULE Spec2Model ----
(***************************************************************************)
(* The authenticated API client of the partner portal (class ApiClient):   *)
(* bearer-token attachment, one-shot token refresh on 401, redirect on     *)
(* unrecoverable 401 and on 403, login, refreshToken and logout over the   *)
(* two localStorage entries access_token and refresh_token.                *)
(*                                                                         *)
(* Execution model.  The client runs on the browser's event loop.  A call  *)
(* is suspended only while an HTTP exchange is outstanding (await fetch,   *)
(* followed by await response.json() on the same exchange); every action   *)
(* below is one run-to-completion segment between two such suspensions.    *)
(* The continuation of `await this.refreshToken()` is the microtask queued *)
(* by refreshToken's own return, so it runs in the same microtask          *)
(* checkpoint and belongs to the segment that finished the refresh.        *)
(* The pages that use the client are client components, so window and      *)
(* localStorage exist (HasWindow).                                         *)
(*                                                                         *)
(* The pages built on the client (dashboard layout, login page, vouchers   *)
(* page, paginated lists) keep their React state in ui; a handler's        *)
(* continuation after `await apiClient.<op>(...)` is the microtask queued  *)
(* when the awaited call settles, so it belongs to the segment that        *)
(* settles the call.                                                       *)
(***************************************************************************)
EXTENDS Integers, Sequences, FiniteSets, TLC

VARIABLES store, calls, last, ui

vars == <<store, calls, last, ui>>

----------------------------------------------------------------------------
(* Bounds and value domains *)

NumCalls == 2

(* The longest list a fetch returns, and the cap of the page counter.      *)
MaxItems == 31

MaxPage == 5

Calls == 1..NumCalls

NULL == "NULL"

AccessTokens == {"A1", "A2"}

RefreshTokens == {"R1", "R2"}

HasWindow == TRUE

API_URL == "http://localhost:8000"

Endpoints == {"/api/v1/customers/"}

Credentials == "{username,password}"

(* Values a caller passes as the optional `data` argument of post and put.  *)
UNDEFINED == "undefined"

DataValues == {UNDEFINED, "0", "{d}"}

----------------------------------------------------------------------------
(* JavaScript conversions *)

(* `if (x)` on a string | null | undefined value.                          *)
Truthy(x) == x # NULL /\ x # UNDEFINED /\ x # ""

(* `data ? ... : ...` on the data argument: the number 0 is falsy.         *)
TruthyData(d) == d # UNDEFINED /\ d # "0"

(* `${x}` inside a template literal.                                       *)
Str(x) == IF x = NULL THEN "null" ELSE x

JSONstringify(d) == "json:" \o d

NoBody == UNDEFINED

NoHeader == "NoHeader"

----------------------------------------------------------------------------
(* HTTP responses, as the environment may produce them *)

Json(d, a, r) == [parsable |-> TRUE, data |-> d, access |-> a, refresh |-> r]

Unparsable == [parsable |-> FALSE, data |-> NULL, access |-> NULL, refresh |-> NULL]

Resp(st, txt, b) == [rejected |-> FALSE, status |-> st, statusText |-> txt, body |-> b]

(* fetch() itself rejects: the transport failed, there is no response.     *)
Rejected == [rejected |-> TRUE, status |-> 0, statusText |-> "", body |-> Unparsable]

NoResponse == [rejected |-> FALSE, status |-> -1, statusText |-> "", body |-> Unparsable]

ErrorResponses ==
    { Resp(401, "Unauthorized", Json("detail", NULL, NULL)),
      Resp(403, "Forbidden", Json("detail", NULL, NULL)),
      Resp(500, "Internal Server Error", Unparsable) }

TargetResponses ==
    { Resp(200, "OK", Json("b1", NULL, NULL)),
      Resp(204, "No Content", Unparsable) }
    \cup ErrorResponses \cup {Rejected}

TokenResponses ==
    { Resp(200, "OK", Json(NULL, "A1", "R1")),
      Resp(200, "OK", Json(NULL, "A2", "R2")),
      Resp(200, "OK", Unparsable) }
    \cup ErrorResponses \cup {Rejected}

RefreshResponses ==
    { Resp(200, "OK", Json(NULL, a, NULL)) : a \in AccessTokens }
    \cup { Resp(200, "OK", Unparsable) }
    \cup ErrorResponses \cup {Rejected}

(* Response.ok *)
Ok(r) == r.status >= 200 /\ r.status <= 299

----------------------------------------------------------------------------
(* Token accessors over localStorage *)

EmptyStore == [access_token |-> NULL, refresh_token |-> NULL]

getAccessToken(s) == IF ~HasWindow THEN NULL ELSE s.access_token

getRefreshToken(s) == IF ~HasWindow THEN NULL ELSE s.refresh_token

setAccessToken_DropsRefresh(s, token) ==
    [s EXCEPT !.access_token = token, !.refresh_token = NULL]

setAccessToken(s, token) ==
    IF HasWindow THEN [s EXCEPT !.access_token = token] ELSE s

setTokens_AccessOnly(s, access, refresh) ==
    [s EXCEPT !.access_token = access]

setTokens(s, access, refresh) ==
    IF HasWindow
    THEN [s EXCEPT !.access_token = access, !.refresh_token = refresh]
    ELSE s

clearTokens_AccessOnly(s) == [s EXCEPT !.access_token = NULL]

clearTokens(s) ==
    IF HasWindow
    THEN [s EXCEPT !.access_token = NULL, !.refresh_token = NULL]
    ELSE s

(* window.location.href = target, guarded by typeof window.                *)
Navigate(target) == IF HasWindow THEN target ELSE NULL

----------------------------------------------------------------------------
(* Calls in flight *)

Wrappers == {"get", "post", "put", "delete"}

Method(op) ==
    CASE op = "get" -> "GET"
      [] op = "post" -> "POST"
      [] op = "put" -> "PUT"
      [] op = "delete" -> "DELETE"

(* An HTTP call: fetch(url, {method, body, headers}).                      *)
Message(url, method, body, authorization) ==
    [url |-> url, method |-> method, body |-> body,
     contentType |-> "application/json", authorization |-> authorization]

NoRequest == Message("", "", NoBody, NoHeader)

(* url and options of a request, in scope until the call settles.          *)
Options(url, method, body) == [url |-> url, method |-> method, body |-> body]

NoOptions == Options("", "", NoBody)

IdleCall ==
    [op |-> "idle", pc |-> "idle", data |-> UNDEFINED,
     options |-> NoOptions, sent |-> NoRequest,
     response |-> NoResponse, refreshResponse |-> NoResponse,
     retryResponse |-> NoResponse, nFetch |-> 0, nRefresh |-> 0]

(* What the most recently finished operation did: its return value or the  *)
(* error it threw, the navigation it triggered, the HTTP calls it made and *)
(* the responses it saw; again tells that a logout directly followed a     *)
(* logout.                                                                 *)
NoValue == Json(UNDEFINED, NULL, NULL)

BoolValue(b) == Json(IF b THEN "true" ELSE "false", NULL, NULL)

NoLast ==
    [op |-> "none", data |-> UNDEFINED, threw |-> FALSE, error |-> "",
     value |-> NoValue, nav |-> NULL, nFetch |-> 0, nRefresh |-> 0,
     first |-> NoResponse, refresh |-> NoResponse, retry |-> NoResponse,
     again |-> FALSE]

AllIdle == \A c \in Calls : calls[c].pc = "idle"

(* React state of the pages before any of them is mounted.                 *)
NoLayout == [mounted |-> FALSE, pushed |-> NULL]

(* LoginPage as mounted: lines 27-30; pushed is the router.push target.    *)
NoLoginPage ==
    [username |-> "", password |-> "", error |-> "", loading |-> FALSE,
     pushed |-> NULL]

(* VouchersPage once its initial load has finished: lines 62-71.  phase    *)
(* and call are the position of handleSubmit and the slot of the call it   *)
(* awaits.                                                                 *)
NoVouchersPage ==
    [vouchers |-> "[]", loading |-> FALSE, error |-> "", dialogOpen |-> FALSE,
     creating |-> FALSE, selectedCustomer |-> NULL,
     selectedBillingPlan |-> NULL, phase |-> "idle", call |-> 0]

(* A list page as mounted (BillingPlansPage lines 41 and 46): the length   *)
(* of the fetched list and the page shown.                                 *)
NoListPage == [length |-> 0, currentPage |-> 1]

NoUi ==
    [layout |-> NoLayout, loginPage |-> NoLoginPage,
     vouchersPage |-> NoVouchersPage, listPage |-> NoListPage]

Init ==
    /\ store = EmptyStore
    /\ calls = [c \in Calls |-> IdleCall]
    /\ last = NoLast
    /\ ui = NoUi

(* The call in slot c settles: its promise resolves with `value` or        *)
(* rejects with `error`.                                                   *)
Settle(c, call, threw, error, value, nav) ==
    /\ calls' = [calls EXCEPT ![c] = IdleCall]
    /\ last' = [op |-> call.op, data |-> call.data, threw |-> threw,
                error |-> error, value |-> value, nav |-> nav,
                nFetch |-> call.nFetch, nRefresh |-> call.nRefresh,
                first |-> call.response, refresh |-> call.refreshResponse,
                retry |-> call.retryResponse, again |-> FALSE]

Return(c, call, value) == Settle(c, call, FALSE, "", value, NULL)

Throw(c, call, error, nav) == Settle(c, call, TRUE, error, NoValue, nav)

(* `return response.json()`: the body is parsed, or the parse rejects.     *)
ReturnJson(c, call, r) ==
    IF r.body.parsable
    THEN Return(c, call, r.body)
    ELSE Throw(c, call, "SyntaxError", NULL)

----------------------------------------------------------------------------
(* request *)

AuthHeader_NoScheme(token) == IF Truthy(token) THEN token ELSE NoHeader

AuthHeader_Always(token) == "Bearer " \o Str(token)

AuthHeader(token) ==
    IF Truthy(token) THEN "Bearer " \o token ELSE NoHeader

RetryAuthHeader(token) == "Bearer " \o Str(token)

(* Lines 28-43: build the headers and issue the first fetch.  options     *)
(* (with url) stays in scope for the retry; sent is the HTTP call in       *)
(* flight.  Of `headers` only Authorization varies, and the retry          *)
(* overrides it (line 53), so it is kept in sent alone.                    *)
IssuedCall(op, endpoint, body, data, s) ==
    LET options == Options(API_URL \o endpoint, Method(op), body) IN
    [IdleCall EXCEPT
       !.op = op, !.pc = "fetch1", !.data = data, !.options = options,
       !.sent = Message(options.url, options.method, options.body,
                        AuthHeader(getAccessToken(s))),
       !.nFetch = 1]

request(c, op, endpoint, body, data) ==
    /\ calls[c].pc = "idle"
    /\ calls' = [calls EXCEPT ![c] = IssuedCall(op, endpoint, body, data, store)]
    /\ UNCHANGED <<store, last>>

get(c, endpoint) == request(c, "get", endpoint, NoBody, UNDEFINED)

post(c, endpoint, data) ==
    request(c, "post", endpoint,
            IF TruthyData(data) THEN JSONstringify(data) ELSE NoBody, data)

put(c, endpoint, data) ==
    request(c, "put", endpoint,
            IF TruthyData(data) THEN JSONstringify(data) ELSE NoBody, data)

delete(c, endpoint) == request(c, "delete", endpoint, NoBody, UNDEFINED)

(* Lines 109-115: the call refreshToken() issues.                          *)
RefreshRequest(refreshToken) ==
    Message(API_URL \o "/api/v1/token/refresh/", "POST",
            JSONstringify(refreshToken), NoHeader)

RefreshSucceeds_IgnoresBody(r) == ~r.rejected /\ Ok(r)

(* Lines 117-126: the value refreshToken() returns for a settled exchange. *)
RefreshSucceeds(r) == ~r.rejected /\ Ok(r) /\ r.body.parsable

StoreAfterRefresh_Unsaved(s, r) == s

StoreAfterRefresh_ClearsOnFailure(s, r) ==
    IF RefreshSucceeds(r) THEN setAccessToken(s, r.body.access) ELSE clearTokens(s)

(* Lines 121-122: the store after refreshToken() handled the exchange.     *)
StoreAfterRefresh(s, r) ==
    IF RefreshSucceeds(r) THEN setAccessToken(s, r.body.access) ELSE s

AuthenticationFailed_KeepsTokens(c, call) ==
    /\ store' = store
    /\ Throw(c, call, "Authentication failed", Navigate("/login"))

(* Lines 64-69: the refresh failed.                                        *)
AuthenticationFailed(c, call) ==
    /\ store' = clearTokens(store)
    /\ Throw(c, call, "Authentication failed", Navigate("/login"))

(* Lines 78 and 60: the error thrown for a non-success status.             *)
ApiError(r) == "API error: " \o r.statusText

StartRefresh_SingleFlight(c, call) ==
    /\ calls' = [calls EXCEPT ![c] =
          IF \E d \in Calls : calls[d].pc = "refresh"
          THEN [call EXCEPT !.pc = "refresh"]
          ELSE [call EXCEPT !.pc = "refresh",
                            !.sent = RefreshRequest(getRefreshToken(store)),
                            !.nRefresh = call.nRefresh + 1]]
    /\ UNCHANGED <<store, last>>

(* The refresh of a request: lines 103-115 when a refresh token is stored. *)
StartRefresh(c, call) ==
    /\ calls' = [calls EXCEPT ![c] =
          [call EXCEPT !.pc = "refresh",
                       !.sent = RefreshRequest(getRefreshToken(store)),
                       !.nRefresh = call.nRefresh + 1]]
    /\ UNCHANGED <<store, last>>

NeedsRefresh_AnyAuthError(r) == r.status = 401 \/ r.status = 403

(* Line 46: the status that starts the refresh-and-retry.                  *)
NeedsRefresh(r) == r.status = 401

Forbidden_AndAbove(r) == r.status >= 403

(* Line 71.                                                                *)
Forbidden(r) == r.status = 403

(* Lines 45-81 up to the next suspension, run when the first fetch settles *)
(* with r.  refreshToken() (lines 103-106) returns false at once when no   *)
(* refresh token is stored, and issues its call otherwise.                 *)
FirstResponse(c, r) ==
    /\ calls[c].pc = "fetch1"
    /\ calls[c].op \in Wrappers
    /\ LET call == [calls[c] EXCEPT !.response = r] IN
       IF r.rejected
       THEN Throw(c, call, "TypeError", NULL) /\ UNCHANGED store
       ELSE IF Ok(r)
       THEN ReturnJson(c, call, r) /\ UNCHANGED store
       ELSE IF NeedsRefresh(r)
       THEN IF ~Truthy(getRefreshToken(store))
            THEN AuthenticationFailed(c, call)
            ELSE StartRefresh(c, call)
       ELSE IF Forbidden(r)
       THEN Throw(c, call, "Access forbidden", Navigate("/403")) /\ UNCHANGED store
       ELSE Throw(c, call, ApiError(r), NULL) /\ UNCHANGED store

RetryRequest_NoBody(options, s) ==
    Message(options.url, options.method, NoBody,
            RetryAuthHeader(getAccessToken(s)))

(* Lines 51-58: the retry reissues url and options with the Authorization  *)
(* header rebuilt from the stored access token.                            *)
RetryRequest(options, s) ==
    Message(options.url, options.method, options.body,
            RetryAuthHeader(getAccessToken(s)))

(* The refresh exchange of a request settles with r: refreshToken()        *)
(* finishes (lines 117-126) and request continues at line 49.              *)
RefreshResponse(c, r) ==
    /\ calls[c].pc = "refresh"
    /\ calls[c].op \in Wrappers
    /\ LET call == [calls[c] EXCEPT !.refreshResponse = r] IN
       IF RefreshSucceeds(r)
       THEN /\ store' = StoreAfterRefresh(store, r)
            /\ calls' = [calls EXCEPT ![c] =
                  [call EXCEPT !.pc = "fetch2",
                               !.sent = RetryRequest(call.options, store'),
                               !.nFetch = call.nFetch + 1]]
            /\ UNCHANGED last
       ELSE AuthenticationFailed(c, call)

RetryResponse_Chained(c, r) ==
    /\ calls[c].pc = "fetch2"
    /\ calls[c].op \in Wrappers
    /\ LET call == [calls[c] EXCEPT !.retryResponse = r] IN
       IF r.rejected
       THEN Throw(c, call, "TypeError", NULL) /\ UNCHANGED store
       ELSE IF NeedsRefresh(r) /\ Truthy(getRefreshToken(store))
       THEN StartRefresh(c, call)
       ELSE IF ~Ok(r)
       THEN Throw(c, call, ApiError(r), NULL) /\ UNCHANGED store
       ELSE ReturnJson(c, call, r) /\ UNCHANGED store

RetryResponse_SecondRound(c, r) ==
    /\ calls[c].pc = "fetch2"
    /\ calls[c].op \in Wrappers
    /\ LET call == [calls[c] EXCEPT !.retryResponse = r] IN
       IF r.rejected
       THEN Throw(c, call, "TypeError", NULL) /\ UNCHANGED store
       ELSE IF NeedsRefresh(r) /\ Truthy(getRefreshToken(store)) /\ call.nRefresh < 2
       THEN StartRefresh(c, call)
       ELSE IF ~Ok(r)
       THEN Throw(c, call, ApiError(r), NULL) /\ UNCHANGED store
       ELSE ReturnJson(c, call, r) /\ UNCHANGED store

RetryResponse_Redirects(c, r) ==
    /\ calls[c].pc = "fetch2"
    /\ calls[c].op \in Wrappers
    /\ UNCHANGED store
    /\ LET call == [calls[c] EXCEPT !.retryResponse = r] IN
       IF r.rejected
       THEN Throw(c, call, "TypeError", NULL)
       ELSE IF Forbidden(r)
       THEN Throw(c, call, "Access forbidden", Navigate("/403"))
       ELSE IF ~Ok(r)
       THEN Throw(c, call, ApiError(r), NULL)
       ELSE ReturnJson(c, call, r)

RetryResponse_CatchesTransport(c, r) ==
    /\ calls[c].pc = "fetch2"
    /\ calls[c].op \in Wrappers
    /\ LET call == [calls[c] EXCEPT !.retryResponse = r] IN
       IF r.rejected
       THEN AuthenticationFailed(c, call)
       ELSE IF ~Ok(r)
       THEN Throw(c, call, ApiError(r), NULL) /\ UNCHANGED store
       ELSE ReturnJson(c, call, r) /\ UNCHANGED store

RetryResponse_FirstText(c, r) ==
    /\ calls[c].pc = "fetch2"
    /\ calls[c].op \in Wrappers
    /\ UNCHANGED store
    /\ LET call == [calls[c] EXCEPT !.retryResponse = r] IN
       IF r.rejected
       THEN Throw(c, call, "TypeError", NULL)
       ELSE IF ~Ok(r)
       THEN Throw(c, call, ApiError(call.response), NULL)
       ELSE ReturnJson(c, call, r)

(* Lines 59-62, run when the retried fetch settles with r.                 *)
RetryResponse(c, r) ==
    /\ calls[c].pc = "fetch2"
    /\ calls[c].op \in Wrappers
    /\ UNCHANGED store
    /\ LET call == [calls[c] EXCEPT !.retryResponse = r] IN
       IF r.rejected
       THEN Throw(c, call, "TypeError", NULL)
       ELSE IF ~Ok(r)
       THEN Throw(c, call, ApiError(r), NULL)
       ELSE ReturnJson(c, call, r)

----------------------------------------------------------------------------
(* login, refreshToken, logout *)

(* Lines 85-91.                                                            *)
login(c, credentials) ==
    /\ calls[c].pc = "idle"
    /\ calls' = [calls EXCEPT ![c] =
          [IdleCall EXCEPT
             !.op = "login", !.pc = "fetch1", !.data = credentials,
             !.sent = Message(API_URL \o "/api/v1/token/", "POST",
                              JSONstringify(credentials), NoHeader),
             !.nFetch = 1]]
    /\ UNCHANGED <<store, last>>

InvalidCredentials_401Only(r) == r.status = 401

(* Line 93.                                                                *)
InvalidCredentials(r) == ~Ok(r)

(* Lines 93-99, run when the token exchange settles with r.                *)
LoginResponse(c, r) ==
    /\ calls[c].pc = "fetch1"
    /\ calls[c].op = "login"
    /\ LET call == [calls[c] EXCEPT !.response = r] IN
       IF r.rejected
       THEN Throw(c, call, "TypeError", NULL) /\ UNCHANGED store
       ELSE IF InvalidCredentials(r)
       THEN Throw(c, call, "Invalid credentials", NULL) /\ UNCHANGED store
       ELSE IF ~r.body.parsable
       THEN Throw(c, call, "SyntaxError", NULL) /\ UNCHANGED store
       ELSE /\ store' = setTokens(store, r.body.access, r.body.refresh)
            /\ Return(c, call, r.body)

refreshToken_NoGuard(c) ==
    /\ calls[c].pc = "idle"
    /\ calls' = [calls EXCEPT ![c] =
          [IdleCall EXCEPT !.op = "refreshToken", !.pc = "refresh",
                           !.sent = RefreshRequest(getRefreshToken(store)),
                           !.nRefresh = 1]]
    /\ UNCHANGED <<store, last>>

(* Lines 102-115: refreshToken() called on its own.                        *)
refreshToken(c) ==
    /\ calls[c].pc = "idle"
    /\ LET call == [IdleCall EXCEPT !.op = "refreshToken"] IN
       IF ~Truthy(getRefreshToken(store))
       THEN Return(c, call, BoolValue(FALSE))
       ELSE /\ calls' = [calls EXCEPT ![c] =
                  [call EXCEPT !.pc = "refresh",
                               !.sent = RefreshRequest(getRefreshToken(store)),
                               !.nRefresh = 1]]
            /\ UNCHANGED last
    /\ UNCHANGED store

(* Lines 117-126, run when that refresh exchange settles with r.           *)
RefreshTokenResponse(c, r) ==
    /\ calls[c].pc = "refresh"
    /\ calls[c].op = "refreshToken"
    /\ store' = StoreAfterRefresh(store, r)
    /\ Return(c, [calls[c] EXCEPT !.refreshResponse = r],
              BoolValue(RefreshSucceeds(r)))

(* Lines 129-134: synchronous.                                             *)
logout ==
    /\ store' = clearTokens(store)
    /\ last' = [NoLast EXCEPT !.op = "logout", !.nav = Navigate("/login"),
                              !.again = (last.op = "logout")]
    /\ UNCHANGED calls

----------------------------------------------------------------------------
(* The client used one operation at a time: an operation starts only when  *)
(* none is in flight.                                                      *)

Start(c) ==
    \/ \E e \in Endpoints : get(c, e)
    \/ \E e \in Endpoints, d \in DataValues : post(c, e, d)
    \/ \E e \in Endpoints, d \in DataValues : put(c, e, d)
    \/ \E e \in Endpoints : delete(c, e)
    \/ login(c, Credentials)
    \/ refreshToken(c)

Respond(c) ==
    \/ \E r \in TargetResponses : FirstResponse(c, r)
    \/ \E r \in RefreshResponses : RefreshResponse(c, r)
    \/ \E r \in TargetResponses : RetryResponse(c, r)
    \/ \E r \in TokenResponses : LoginResponse(c, r)
    \/ \E r \in RefreshResponses : RefreshTokenResponse(c, r)

Next ==
    \/ \E c \in Calls : AllIdle /\ Start(c) /\ UNCHANGED ui
    \/ \E c \in Calls : Respond(c) /\ UNCHANGED ui
    \/ AllIdle /\ logout /\ UNCHANGED ui

Spec == Init /\ [][Next]_vars

(* The client under interleaving: operations start while others are in     *)
(* flight, as when a page issues several requests at once.                 *)

ConcStart(c) ==
    \/ \E e \in Endpoints : get(c, e)
    \/ login(c, Credentials)
    \/ refreshToken(c)

ConcNext ==
    \/ \E c \in Calls : ConcStart(c) /\ UNCHANGED ui
    \/ \E c \in Calls : Respond(c) /\ UNCHANGED ui
    \/ logout /\ UNCHANGED ui

ConcSpec == Init /\ [][ConcNext]_vars

(* Requests of a page loaded with a session persisted by an earlier login, *)
(* interleaved with each other and with logout, where every HTTP exchange  *)
(* in flight eventually settles (resolves or rejects) and the continuation *)
(* awaiting it then runs.                                                  *)
SessionInit ==
    /\ store = setTokens(EmptyStore, "A1", "R1")
    /\ calls = [c \in Calls |-> IdleCall]
    /\ last = NoLast
    /\ ui = NoUi

FairRespond(c) ==
    /\ \/ \E r \in TargetResponses : FirstResponse(c, r)
       \/ \E r \in RefreshResponses : RefreshResponse(c, r)
       \/ \E r \in TargetResponses : RetryResponse(c, r)
    /\ UNCHANGED ui

FairNext ==
    \/ \E c \in Calls : \E e \in Endpoints : get(c, e) /\ UNCHANGED ui
    \/ \E c \in Calls : FairRespond(c)
    \/ logout /\ UNCHANGED ui

FairConcSpec ==
    SessionInit /\ [][FairNext]_vars /\ \A c \in Calls : WF_vars(FairRespond(c))

----------------------------------------------------------------------------
(* DashboardPage: the statistics are fetched by one get per slot, issued   *)
(* together in one Promise.all, on a page loaded with a persisted session. *)

fetchDashboardStats ==
    /\ AllIdle
    /\ \E e \in Endpoints :
          calls' = [c \in Calls |-> IssuedCall("get", e, NoBody, UNDEFINED, store)]
    /\ UNCHANGED <<store, last, ui>>

DashboardNext ==
    \/ fetchDashboardStats
    \/ \E c \in Calls : FairRespond(c)

DashboardSpec == SessionInit /\ [][DashboardNext]_vars

----------------------------------------------------------------------------
(* DashboardLayout (app/dashboard/layout.tsx) *)

LayoutCheck_NeedsBothTokens(s) ==
    IF HasWindow /\ (~Truthy(s.access_token) \/ ~Truthy(s.refresh_token))
    THEN "/login"
    ELSE NULL

(* Lines 17-22: the target the mount effect pushes, if any.                *)
LayoutCheck(s) ==
    IF HasWindow /\ ~Truthy(s.access_token) THEN "/login" ELSE NULL

(* Lines 15-23: the effect runs once, when the layout mounts (its only     *)
(* dependency, router, is stable).                                         *)
DashboardLayoutMount ==
    /\ ~ui.layout.mounted
    /\ ui' = [ui EXCEPT !.layout = [mounted |-> TRUE,
                                    pushed |-> LayoutCheck(store)]]
    /\ UNCHANGED <<store, calls, last>>

(* The layout mounting at any moment of a session in which requests and    *)
(* logout interleave.                                                      *)
LayoutNext ==
    \/ DashboardLayoutMount
    \/ \E c \in Calls : \E e \in Endpoints : get(c, e) /\ UNCHANGED ui
    \/ \E c \in Calls : FairRespond(c)
    \/ logout /\ UNCHANGED ui

LayoutSpec == SessionInit /\ [][LayoutNext]_vars

----------------------------------------------------------------------------
(* LoginPage (app/login/page.tsx) *)

Usernames == {"", "alice", "bob"}

Passwords == {"", "pw"}

(* The object literal { username, password } of line 55.                   *)
LoginCredentials(username, password) == "{" \o username \o "," \o password \o "}"

(* Lines 143 and 154; the inputs are disabled while loading.               *)
setUsername(v) ==
    /\ ~ui.loginPage.loading
    /\ ui.loginPage.pushed = NULL
    /\ ui' = [ui EXCEPT !.loginPage.username = v]
    /\ UNCHANGED <<store, calls, last>>

setPassword(v) ==
    /\ ~ui.loginPage.loading
    /\ ui.loginPage.pushed = NULL
    /\ ui' = [ui EXCEPT !.loginPage.password = v]
    /\ UNCHANGED <<store, calls, last>>

(* Lines 49-55: the form submits when both required inputs are filled and  *)
(* the button is enabled; runs up to the await.                            *)
LoginPageSubmit(c) ==
    /\ ~ui.loginPage.loading
    /\ ui.loginPage.pushed = NULL
    /\ ui.loginPage.username # ""
    /\ ui.loginPage.password # ""
    /\ ui' = [ui EXCEPT !.loginPage.error = "", !.loginPage.loading = TRUE]
    /\ login(c, LoginCredentials(ui.loginPage.username, ui.loginPage.password))

LoginPageSettled_LoadingStuck(page, threw, message) ==
    IF threw
    THEN [page EXCEPT !.error = message]
    ELSE [page EXCEPT !.pushed = "/dashboard", !.loading = FALSE]

(* Lines 56-61: the page state after the awaited login settled.            *)
LoginPageSettled(page, threw, message) ==
    IF threw
    THEN [page EXCEPT !.error = message, !.loading = FALSE]
    ELSE [page EXCEPT !.pushed = "/dashboard", !.loading = FALSE]

(* The login of a submit settles with r and handleSubmit continues.        *)
LoginPageResponse(c, r) ==
    /\ ui.loginPage.loading
    /\ LoginResponse(c, r)
    /\ ui' = [ui EXCEPT !.loginPage =
                 LoginPageSettled(ui.loginPage, last'.threw, last'.error)]

(* The page is mounted afresh after it navigated away.                     *)
LoginPageMount ==
    /\ ui.loginPage.pushed # NULL
    /\ ui' = [ui EXCEPT !.loginPage = NoLoginPage]
    /\ UNCHANGED <<store, calls, last>>

LoginPageNext ==
    \/ \E v \in Usernames : setUsername(v)
    \/ \E v \in Passwords : setPassword(v)
    \/ \E c \in Calls : LoginPageSubmit(c)
    \/ \E c \in Calls : \E r \in TokenResponses : LoginPageResponse(c, r)
    \/ LoginPageMount

LoginPageSpec == Init /\ [][LoginPageNext]_vars

----------------------------------------------------------------------------
(* VouchersPage (app/dashboard/vouchers/page.tsx) *)

Customers == {NULL, "c1"}

BillingPlans == {NULL, "p1"}

(* Lines 133-136.                                                          *)
SubmitData(plan, customer) == "{" \o plan \o "," \o customer \o "}"

(* Lines 111-115.                                                          *)
resetForm(page) ==
    [page EXCEPT !.selectedCustomer = NULL, !.selectedBillingPlan = NULL,
                 !.error = ""]

(* Lines 117-120: the page's Generate Voucher button (covered by the       *)
(* dialog while that is open).                                             *)
openCreateDialog ==
    /\ ~ui.vouchersPage.dialogOpen
    /\ ui.vouchersPage.phase # "refetch"
    /\ ui' = [ui EXCEPT !.vouchersPage =
                 [resetForm(ui.vouchersPage) EXCEPT !.dialogOpen = TRUE]]
    /\ UNCHANGED <<store, calls, last>>

(* Lines 268-277: the dialog is dismissed (Escape, overlay, close icon),   *)
(* which nothing disables while a voucher is being created.                *)
onOpenChange ==
    /\ ui.vouchersPage.dialogOpen
    /\ ui.vouchersPage.phase # "refetch"
    /\ ui' = [ui EXCEPT !.vouchersPage =
                 [resetForm(ui.vouchersPage) EXCEPT !.dialogOpen = FALSE]]
    /\ UNCHANGED <<store, calls, last>>

(* Lines 325-331: Cancel, disabled while creating.                         *)
Cancel ==
    /\ ui.vouchersPage.dialogOpen
    /\ ~ui.vouchersPage.creating
    /\ ui' = [ui EXCEPT !.vouchersPage.dialogOpen = FALSE]
    /\ UNCHANGED <<store, calls, last>>

(* Lines 293-304 and 309-321: the selects, disabled while creating.        *)
setSelectedCustomer(v) ==
    /\ ui.vouchersPage.dialogOpen
    /\ ~ui.vouchersPage.creating
    /\ ui' = [ui EXCEPT !.vouchersPage.selectedCustomer = v]
    /\ UNCHANGED <<store, calls, last>>

setSelectedBillingPlan(v) ==
    /\ ui.vouchersPage.dialogOpen
    /\ ~ui.vouchersPage.creating
    /\ ui' = [ui EXCEPT !.vouchersPage.selectedBillingPlan = v]
    /\ UNCHANGED <<store, calls, last>>

(* Lines 122-138: the form of the open dialog is submitted (not while      *)
(* creating: the submit button is disabled then); runs up to the await.    *)
(* The handler's own test of the selection is the one modelled.            *)
VouchersSubmit(c) ==
    LET page == ui.vouchersPage IN
    /\ page.dialogOpen
    /\ ~page.creating
    /\ IF ~Truthy(page.selectedCustomer) \/ ~Truthy(page.selectedBillingPlan)
       THEN /\ ui' = [ui EXCEPT !.vouchersPage.error =
                         "Please select both customer and billing plan"]
            /\ UNCHANGED <<store, calls, last>>
       ELSE /\ ui' = [ui EXCEPT !.vouchersPage =
                         [page EXCEPT !.creating = TRUE, !.error = "",
                                      !.phase = "post", !.call = c]]
            /\ post(c, "/api/v1/vouchers/partner_purchase/",
                    SubmitData(page.selectedBillingPlan, page.selectedCustomer))

(* A step of the request the page awaits.                                  *)
AwaitedResponse(c) ==
    \/ \E r \in TargetResponses : FirstResponse(c, r)
    \/ \E r \in RefreshResponses : RefreshResponse(c, r)
    \/ \E r \in TargetResponses : RetryResponse(c, r)

PostSettled_ClosesOnFailure(page, threw, message) ==
    IF threw
    THEN [page EXCEPT !.error = message, !.creating = FALSE,
                      !.dialogOpen = FALSE, !.phase = "idle", !.call = 0]
    ELSE [resetForm([page EXCEPT !.dialogOpen = FALSE]) EXCEPT
             !.loading = TRUE, !.phase = "refetch"]

(* Lines 139-141 and 81-82 when the post resolved; lines 142-225 when it   *)
(* rejected: the errors the client throws carry no data, so the message is *)
(* shown (line 220).                                                       *)
PostSettled(page, threw, message) ==
    IF threw
    THEN [page EXCEPT !.error = message, !.creating = FALSE,
                      !.phase = "idle", !.call = 0]
    ELSE [resetForm([page EXCEPT !.dialogOpen = FALSE]) EXCEPT
             !.loading = TRUE, !.phase = "refetch"]

VouchersPostResponse(c) ==
    /\ ui.vouchersPage.phase = "post"
    /\ ui.vouchersPage.call = c
    /\ AwaitedResponse(c)
    /\ ui' = IF calls'[c].pc # "idle"
             THEN ui
             ELSE [ui EXCEPT !.vouchersPage =
                     PostSettled(ui.vouchersPage, last'.threw, last'.error)]

(* Line 83, in the segment that settled the post: fetchVouchers issues     *)
(* its get before anything else runs.                                      *)
fetchVouchers(c) ==
    /\ ui.vouchersPage.phase = "refetch"
    /\ ui.vouchersPage.call = c
    /\ ui' = [ui EXCEPT !.vouchersPage.phase = "get"]
    /\ get(c, "/api/v1/vouchers/my_customers_vouchers/")

(* Lines 84-89, then line 224: fetchVouchers finishes and handleSubmit     *)
(* with it.                                                                *)
RefetchSettled(page, threw, message, data) ==
    IF threw
    THEN [page EXCEPT !.error = message, !.loading = FALSE,
                      !.creating = FALSE, !.phase = "idle", !.call = 0]
    ELSE [page EXCEPT !.vouchers = data, !.loading = FALSE,
                      !.creating = FALSE, !.phase = "idle", !.call = 0]

VouchersRefetchResponse(c) ==
    /\ ui.vouchersPage.phase = "get"
    /\ ui.vouchersPage.call = c
    /\ AwaitedResponse(c)
    /\ ui' = IF calls'[c].pc # "idle"
             THEN ui
             ELSE [ui EXCEPT !.vouchersPage =
                     RefetchSettled(ui.vouchersPage, last'.threw, last'.error,
                                    last'.value.data)]

VouchersNext ==
    \/ openCreateDialog
    \/ onOpenChange
    \/ Cancel
    \/ \E v \in Customers : setSelectedCustomer(v)
    \/ \E v \in BillingPlans : setSelectedBillingPlan(v)
    \/ \E c \in Calls : VouchersSubmit(c)
    \/ \E c \in Calls : VouchersPostResponse(c)
    \/ \E c \in Calls : fetchVouchers(c)
    \/ \E c \in Calls : VouchersRefetchResponse(c)

VouchersSpec == SessionInit /\ [][VouchersNext]_vars

----------------------------------------------------------------------------
(* Pagination of the list pages (BillingPlansPage; TransactionsPage and    *)
(* VouchersPage repeat it) *)

ITEMS_PER_PAGE == 10

(* Math.ceil(n / d) on non-negative integers.                              *)
Ceil(n, d) == (n + d - 1) \div d

totalPages == Ceil(ui.listPage.length, ITEMS_PER_PAGE)

startIndex == (ui.listPage.currentPage - 1) * ITEMS_PER_PAGE

(* plans.slice(startIndex, endIndex).length *)
paginatedPlans ==
    LET endIndex == startIndex + ITEMS_PER_PAGE
        len == ui.listPage.length
        from == IF startIndex < len THEN startIndex ELSE len
        to == IF endIndex < len THEN endIndex ELSE len
    IN to - from

(* Lines 60 and 115: a fetch (at mount, or after a plan was saved) sets     *)
(* the list to what the server returned, of any length.                    *)
setPlans(n) ==
    /\ ui' = [ui EXCEPT !.listPage.length = n]
    /\ UNCHANGED <<store, calls, last>>

(* Lines 83-86.                                                            *)
goToPage(page) ==
    /\ ui' = [ui EXCEPT !.listPage.currentPage = page]
    /\ UNCHANGED <<store, calls, last>>

(* Lines 120 and 178: the controls are rendered for a non-empty list of    *)
(* more than one page.                                                     *)
ControlsShown == ui.listPage.length # 0 /\ totalPages > 1

(* Lines 185-192.                                                          *)
PreviousButton ==
    /\ ControlsShown
    /\ ui.listPage.currentPage # 1
    /\ goToPage(ui.listPage.currentPage - 1)

(* Lines 194-213.                                                          *)
PageButton(page) ==
    /\ ControlsShown
    /\ page \in 1..totalPages
    /\ \/ page = 1
       \/ page = totalPages
       \/ (page >= ui.listPage.currentPage - 1 /\ page <= ui.listPage.currentPage + 1)
    /\ goToPage(page)

(* Lines 215-222; the page counter is capped at MaxPage.                   *)
NextButton ==
    /\ ControlsShown
    /\ ui.listPage.currentPage # totalPages
    /\ ui.listPage.currentPage < MaxPage
    /\ goToPage(ui.listPage.currentPage + 1)

ListNext ==
    \/ \E n \in 0..MaxItems : setPlans(n)
    \/ PreviousButton
    \/ \E page \in 1..MaxPage : PageButton(page)
    \/ NextButton

ListSpec == Init /\ [][ListNext]_vars

----------------------------------------------------------------------------
(* Reading a step: which call moved, and the responses it has seen by the  *)
(* end of the step (a settled call's responses are those of last).         *)

Settled(c) == calls[c].pc # "idle" /\ calls'[c].pc = "idle"

FirstSeen(c) == IF Settled(c) THEN last'.first ELSE calls'[c].response

RefreshSeen(c) == IF Settled(c) THEN last'.refresh ELSE calls'[c].refreshResponse

RetrySeen(c) == IF Settled(c) THEN last'.retry ELSE calls'[c].retryResponse

IsApiError(e) == e \in {"API error: " \o r.statusText : r \in ErrorResponses}

Granted(r) == ~r.rejected /\ r.status \in 200..299 /\ r.body.parsable

----------------------------------------------------------------------------
(* C1: a single call of request invokes the refresh endpoint at most once  *)
(* and fetches the target endpoint at most twice; when the first response  *)
(* is 401, the refresh succeeds and the retry is 401 again, the call fails *)
(* with ApiError and has made exactly one refresh.                         *)
C1_SingleRetryBound ==
    /\ \A c \in Calls : calls[c].nRefresh <= 1 /\ calls[c].nFetch <= 2
    /\ last.nRefresh <= 1 /\ last.nFetch <= 2
    /\ ( /\ last.op \in Wrappers
         /\ last.first.status = 401
         /\ Granted(last.refresh)
         /\ last.retry.status = 401 )
       => /\ last.threw
          /\ IsApiError(last.error)
          /\ last.nRefresh = 1
          /\ last.nFetch = 2

C1_Witness ==
    /\ last.op \in Wrappers
    /\ last.first.status = 401
    /\ Granted(last.refresh)
    /\ last.retry.status = 401
    /\ last.threw
    /\ last.nRefresh = 1

(* C2: when the first response of a request is 401 and refreshToken()      *)
(* returns false (no refresh token stored, refresh refused, unreadable or  *)
(* not delivered), the step clears both tokens, navigates to /login and    *)
(* fails the call with "Authentication failed" after a single fetch of the *)
(* target.                                                                 *)
C2_Unrecoverable401 ==
    [][\A c \in Calls :
         ( /\ calls[c].op \in Wrappers
           /\ calls'[c] # calls[c]
           /\ \/ /\ calls[c].pc = "fetch1"
                 /\ FirstSeen(c).status = 401
                 /\ store.refresh_token = NULL
              \/ /\ calls[c].pc = "refresh"
                 /\ ~Granted(RefreshSeen(c)) )
         => /\ Settled(c)
            /\ store' = EmptyStore
            /\ last'.threw
            /\ last'.error = "Authentication failed"
            /\ last'.nav = "/login"
            /\ last'.nFetch = 1
            /\ last'.retry = NoResponse]_vars

C2_Witness ==
    /\ last.op \in Wrappers
    /\ last.first.status = 401
    /\ last.refresh.rejected
    /\ last.error = "Authentication failed"
    /\ last.nav = "/login"
    /\ store = EmptyStore

C4_ForbiddenShortCircuit ==
    [][\A c \in Calls :
         ( /\ calls[c].op \in Wrappers
           /\ calls[c].pc = "fetch1"
           /\ calls'[c] # calls[c]
           /\ FirstSeen(c).status = 403 )
         => /\ Settled(c)
            /\ store' = store
            /\ last'.threw
            /\ last'.error = "Access forbidden"
            /\ last'.nav = "/403"
            /\ last'.nRefresh = 0
            /\ last'.nFetch = 1]_vars

C4_Witness ==
    /\ last.op \in Wrappers
    /\ last.first.status = 403
    /\ last.error = "Access forbidden"
    /\ last.nav = "/403"
    /\ last.nRefresh = 0
    /\ store.access_token # NULL

(* C5: a login whose token exchange is granted persists the access and     *)
(* refresh fields of the response, whatever was persisted before, and      *)
(* returns the response's pair.                                            *)
C5_LoginPersistsPair ==
    [][\A c \in Calls :
         ( /\ calls[c].op = "login"
           /\ Settled(c)
           /\ Granted(last'.first) )
         => /\ ~last'.threw
            /\ last'.value = last'.first.body
            /\ store'.access_token = last'.first.body.access
            /\ store'.refresh_token = last'.first.body.refresh]_vars

C5_Witness ==
    /\ last.op = "login"
    /\ ~last.threw
    /\ last.value.access = "A2"
    /\ store = [access_token |-> "A2", refresh_token |-> "R2"]
    /\ \E c \in Calls : calls[c].sent.authorization = "Bearer A1"

(* C6: a login whose token exchange has a non-success status fails with    *)
(* "Invalid credentials", leaves the token store exactly as it was and     *)
(* triggers no navigation.                                                 *)
C6_LoginRejected ==
    [][\A c \in Calls :
         ( /\ calls[c].op = "login"
           /\ Settled(c)
           /\ ~last'.first.rejected
           /\ last'.first.status \notin 200..299 )
         => /\ last'.threw
            /\ last'.error = "Invalid credentials"
            /\ store' = store
            /\ last'.nav = NULL]_vars

C6_Witness ==
    /\ last.op = "login"
    /\ last.first.status = 403
    /\ last.error = "Invalid credentials"
    /\ store.access_token = "A1"

(* C7: logout, from any token store and also directly after a logout,      *)
(* does not throw, leaves neither token persisted and navigates to /login. *)
C7_LogoutIdempotent ==
    [][( /\ last'.op = "logout"
         /\ calls' = calls
         /\ <<store, last>>' # <<store, last>> )
       => /\ store' = EmptyStore
          /\ ~last'.threw
          /\ last'.nav = "/login"]_vars

C7_Witness ==
    /\ last.op = "logout"
    /\ last.again
    /\ ~last.threw
    /\ last.nav = "/login"
    /\ store = EmptyStore

(* C8: with no refresh token persisted, refreshToken returns false, no     *)
(* call to the refresh endpoint is issued and the token store is left as   *)
(* it is.                                                                  *)
C8_RefreshWithoutToken ==
    [][/\ store.refresh_token = NULL
          => \A c \in Calls :
                calls[c].pc # "refresh" => calls'[c].pc # "refresh"
       /\ ( /\ last'.op = "refreshToken"
            /\ last' # last
            /\ store.refresh_token = NULL
            /\ calls' = calls )
          => /\ last'.value = BoolValue(FALSE)
             /\ ~last'.threw
             /\ last'.nRefresh = 0
             /\ store' = store]_vars

C8_Witness ==
    /\ last.op = "refreshToken"
    /\ last.nRefresh = 0
    /\ last.value = BoolValue(FALSE)
    /\ store.refresh_token = NULL

(* C9: the first fetch of get/post/put/delete and the retry carry          *)
(* Authorization: Bearer <t> for the access token t persisted when the     *)
(* call is built, and no Authorization header when none is persisted.      *)
C9_BearerAttached ==
    [][\A c \in Calls :
         /\ ( /\ calls'[c].op \in Wrappers
              /\ calls[c].pc = "idle"
              /\ calls'[c].pc = "fetch1" )
            => calls'[c].sent.authorization =
                 IF store.access_token = NULL
                 THEN NoHeader
                 ELSE "Bearer " \o store.access_token
         /\ ( /\ calls'[c].op \in Wrappers
              /\ calls[c].pc = "refresh"
              /\ calls'[c].pc = "fetch2" )
            => calls'[c].sent.authorization =
                 IF store'.access_token = NULL
                 THEN NoHeader
                 ELSE "Bearer " \o store'.access_token]_vars

C9_Witness ==
    \E c \in Calls :
       /\ calls[c].op = "put"
       /\ calls[c].pc = "fetch2"
       /\ calls[c].sent.authorization = "Bearer A2"
       /\ store.access_token = "A2"

(* C10: a refreshToken whose exchange is granted replaces the persisted    *)
(* access token by the access field of the response, leaves the refresh    *)
(* token as it was and returns true.                                       *)
C10_RefreshOverwritesAccessOnly ==
    [][\A c \in Calls :
         ( /\ calls[c].pc = "refresh"
           /\ calls'[c] # calls[c]
           /\ Granted(RefreshSeen(c)) )
         => /\ store' = [store EXCEPT
                           !.access_token = RefreshSeen(c).body.access]
            /\ calls[c].op = "refreshToken"
               => /\ Settled(c)
                  /\ ~last'.threw
                  /\ last'.value = BoolValue(TRUE)
            /\ calls[c].op \in Wrappers => calls'[c].pc = "fetch2"]_vars

C10_Witness ==
    /\ last.op = "refreshToken"
    /\ last.value = BoolValue(TRUE)
    /\ last.refresh.body.access = "A2"
    /\ store = [access_token |-> "A2", refresh_token |-> "R1"]

(* C11: refreshToken never throws: when its exchange is not delivered, has *)
(* a non-success status or an unparsable body it returns false and leaves  *)
(* both tokens as they are.                                                *)
C11_RefreshNeverThrows ==
    [][\A c \in Calls :
         ( /\ calls[c].op = "refreshToken"
           /\ calls[c].pc = "refresh"
           /\ calls'[c] # calls[c] )
         => /\ Settled(c)
            /\ ~last'.threw
            /\ ( \/ last'.refresh.rejected
                 \/ last'.refresh.status \notin 200..299
                 \/ ~last'.refresh.body.parsable )
               => /\ last'.value = BoolValue(FALSE)
                  /\ store' = store]_vars

C11_Witness ==
    /\ last.op = "refreshToken"
    /\ last.refresh.status = 200
    /\ ~last.refresh.body.parsable
    /\ ~last.threw
    /\ last.value = BoolValue(FALSE)
    /\ store = [access_token |-> "A1", refresh_token |-> "R1"]

C13_OtherStatusApiError ==
    [][\A c \in Calls :
         ( /\ calls[c].op \in Wrappers
           /\ calls[c].pc = "fetch1"
           /\ calls'[c] # calls[c]
           /\ ~FirstSeen(c).rejected
           /\ FirstSeen(c).status \notin 200..299
           /\ FirstSeen(c).status \notin {401, 403} )
         => /\ Settled(c)
            /\ last'.threw
            /\ last'.error = "API error: " \o last'.first.statusText
            /\ last'.nRefresh = 0
            /\ last'.nFetch = 1
            /\ last'.retry = NoResponse
            /\ store' = store
            /\ last'.nav = NULL]_vars

C13_Witness ==
    /\ last.op \in Wrappers
    /\ last.first.status = 500
    /\ last.error = "API error: Internal Server Error"
    /\ last.nFetch = 1
    /\ last.nRefresh = 0
    /\ store.access_token # NULL

(* A step in which call c issues an HTTP call.                             *)
Issues(c) == calls'[c].pc # "idle" /\ calls'[c].pc # calls[c].pc

(* C14 as stated: whenever an access token is persisted, every HTTP call   *)
(* the client issues (first attempt, retry, login call, refresh call)      *)
(* carries it as Authorization: Bearer <token>.                            *)
C14_BearerOnEveryCall ==
    [][\A c \in Calls :
         (Issues(c) /\ store'.access_token # NULL)
         => calls'[c].sent.authorization = "Bearer " \o store'.access_token]_vars

(* C14 as amended: whenever an access token is persisted, the calls that   *)
(* request issues to the target endpoint (first attempt and retry) carry   *)
(* it as Authorization: Bearer <token>; the login call and the refresh     *)
(* call carry no Authorization header.                                     *)
C14_BearerOnRequestCallsOnly ==
    [][\A c \in Calls :
         Issues(c)
         => /\ ( /\ calls'[c].op \in Wrappers
                 /\ calls'[c].pc \in {"fetch1", "fetch2"}
                 /\ store'.access_token # NULL )
               => calls'[c].sent.authorization = "Bearer " \o store'.access_token
            /\ (calls'[c].op = "login" \/ calls'[c].pc = "refresh")
               => calls'[c].sent.authorization = NoHeader]_vars

C14_Witness ==
    \E c \in Calls :
       /\ calls[c].op = "login"
       /\ calls[c].pc = "fetch1"
       /\ calls[c].sent.authorization = NoHeader
       /\ store.access_token = "A1"

(* Steps that the token lifecycle names.                                   *)
LoginGrantedStep ==
    \E c \in Calls : calls[c].op = "login" /\ Settled(c) /\ ~last'.threw

RefreshGrantedStep ==
    \E c \in Calls :
       /\ calls[c].pc = "refresh"
       /\ calls'[c] # calls[c]
       /\ Granted(RefreshSeen(c))

LogoutStep == last'.op = "logout" /\ calls' = calls

FailedRefreshStep ==
    \E c \in Calls :
       /\ calls[c].op \in Wrappers
       /\ Settled(c)
       /\ last'.first.status = 401
       /\ ~Granted(last'.refresh)
       /\ last'.error = "Authentication failed"

(* C15: under any interleaving, a step gives the refresh token a new value *)
(* only if it is a granted login, gives the access token a new value only  *)
(* if it is a granted login or a granted refresh, and deletes a token only *)
(* if it is a logout or a request whose 401 was followed by a failed       *)
(* refresh.                                                                *)
C15_TokenLifecycle ==
    [][/\ (store'.refresh_token # store.refresh_token /\ store'.refresh_token # NULL)
          => LoginGrantedStep
       /\ (store'.access_token # store.access_token /\ store'.access_token # NULL)
          => (LoginGrantedStep \/ RefreshGrantedStep)
       /\ ( \/ (store'.access_token # store.access_token /\ store'.access_token = NULL)
            \/ (store'.refresh_token # store.refresh_token /\ store'.refresh_token = NULL) )
          => (LogoutStep \/ FailedRefreshStep)]_vars

C15_Witness ==
    /\ last.op \in Wrappers
    /\ last.error = "Authentication failed"
    /\ last.nRefresh = 1
    /\ store = EmptyStore
    /\ \E c \in Calls : calls[c].sent.authorization = "Bearer A2"

(* C16: an operation triggers navigation only as a logout (to /login), as  *)
(* a request whose 401 was followed by a failed refresh (to /login) or as  *)
(* a request whose first response is 403 (to /403).                        *)
C16_NavigationOnlyThree ==
    last.nav # NULL
    => \/ last.op = "logout" /\ last.nav = "/login"
       \/ /\ last.op \in Wrappers
          /\ last.first.status = 401
          /\ ~Granted(last.refresh)
          /\ last.retry = NoResponse
          /\ last.error = "Authentication failed"
          /\ last.nav = "/login"
       \/ /\ last.op \in Wrappers
          /\ last.first.status = 403
          /\ last.nRefresh = 0
          /\ last.error = "Access forbidden"
          /\ last.nav = "/403"

C16_Witness ==
    /\ last.op = "get"
    /\ last.first.status = 403
    /\ last.nav = "/403"
    /\ \E c \in Calls : calls[c].pc = "fetch2"

(* C17: calls are neither serialized nor deduplicated: a request that      *)
(* receives 401 while a refresh token is stored issues its own call to the *)
(* refresh endpoint, whatever the other calls are doing, and no call       *)
(* issues more than one.                                                   *)
C17_NoSingleFlight ==
    [][\A c \in Calls :
         /\ calls'[c].nRefresh <= 1
         /\ ( /\ calls[c].op \in Wrappers
              /\ calls[c].pc = "fetch1"
              /\ calls'[c] # calls[c]
              /\ FirstSeen(c).status = 401
              /\ store.refresh_token # NULL )
            => /\ calls'[c].pc = "refresh"
               /\ calls'[c].nRefresh = 1
               /\ calls'[c].sent.url = API_URL \o "/api/v1/token/refresh/"
               /\ calls'[c].sent.body = "json:" \o store.refresh_token
               /\ \A d \in Calls \ {c} : calls'[d] = calls[d]]_vars

C17_Witness ==
    \E c, d \in Calls :
       /\ c # d
       /\ calls[c].op = "get" /\ calls[d].op = "get"
       /\ calls[c].pc = "refresh" /\ calls[d].pc = "refresh"
       /\ calls[c].response.status = 401 /\ calls[d].response.status = 401
       /\ calls[c].nRefresh = 1 /\ calls[d].nRefresh = 1

(* C18: if every HTTP exchange eventually settles, every call in flight    *)
(* eventually settles too, having made at most three network calls (first  *)
(* attempt, refresh, one retry), however other calls interleave.           *)
C18_RunsToCompletion ==
    /\ [](\A c \in Calls : calls[c].nFetch + calls[c].nRefresh <= 3)
    /\ [](last.nFetch + last.nRefresh <= 3)
    /\ \A c \in Calls : (calls[c].pc # "idle") ~> (calls[c].pc = "idle")

C18_Witness ==
    /\ last.op \in Wrappers
    /\ last.nFetch = 2
    /\ last.nRefresh = 1
    /\ last.retry.status = 200
    /\ \E c \in Calls : calls[c].pc = "fetch1"

(* C19: the retry issued after a granted refresh is the original request:  *)
(* the url, method, body and Content-Type the first attempt was sent with  *)
(* (those of the call's options, which do not change while the call is in  *)
(* flight), with Authorization: Bearer <the access token the refresh       *)
(* response carried>.                                                      *)
C19_RetryReissuesOriginal ==
    [][\A c \in Calls :
         /\ ( /\ calls'[c].op \in Wrappers
              /\ calls[c].pc = "idle"
              /\ calls'[c].pc = "fetch1" )
            => /\ calls'[c].sent.url = calls'[c].options.url
               /\ calls'[c].sent.method = calls'[c].options.method
               /\ calls'[c].sent.body = calls'[c].options.body
               /\ calls'[c].sent.contentType = "application/json"
         /\ ( calls[c].pc # "idle" /\ calls'[c].pc # "idle" )
            => calls'[c].options = calls[c].options
         /\ ( /\ calls[c].op \in Wrappers
              /\ calls[c].pc = "refresh"
              /\ calls'[c].pc = "fetch2" )
            => /\ Granted(RefreshSeen(c))
               /\ calls'[c].sent.url = calls[c].options.url
               /\ calls'[c].sent.method = calls[c].options.method
               /\ calls'[c].sent.body = calls[c].options.body
               /\ calls'[c].sent.contentType = "application/json"
               /\ calls'[c].sent.authorization =
                     "Bearer " \o RefreshSeen(c).body.access]_vars

C19_Witness ==
    \E c \in Calls :
       /\ calls[c].op = "post"
       /\ calls[c].pc = "fetch2"
       /\ calls[c].data = "{d}"
       /\ calls[c].sent.method = "POST"
       /\ calls[c].sent.body = "json:{d}"
       /\ calls[c].refreshResponse.body.access = "A2"
       /\ calls[c].sent.authorization = "Bearer A2"

(* C20: a request whose first response has a success status returns the    *)
(* parsed JSON body of that response, having made one network call: no     *)
(* refresh call, no retry, no change of the persisted tokens and no        *)
(* navigation.                                                             *)
C20_SuccessReturnsBody ==
    [][\A c \in Calls :
         ( /\ calls[c].op \in Wrappers
           /\ calls[c].pc = "fetch1"
           /\ calls'[c] # calls[c]
           /\ ~FirstSeen(c).rejected
           /\ FirstSeen(c).status \in 200..299 )
         => /\ Settled(c)
            /\ ~last'.threw
            /\ last'.value.parsable
            /\ last'.value = last'.first.body
            /\ last'.nFetch = 1
            /\ last'.nRefresh = 0
            /\ last'.refresh = NoResponse
            /\ last'.retry = NoResponse
            /\ store' = store
            /\ last'.nav = NULL]_vars

(* C21: get and delete issue GET and DELETE with no body; post and put     *)
(* issue POST and PUT with the JSON encoding of the data argument as body  *)
(* whenever the argument is present, and with no body when it is absent.   *)
C21_WrappersEncodeBody ==
    [][\A c \in Calls :
         ( /\ calls[c].pc = "idle"
           /\ calls'[c].pc = "fetch1"
           /\ calls'[c].op \in Wrappers )
         => LET op == calls'[c].op
                data == calls'[c].data
                sent == calls'[c].sent
            IN /\ op = "get" => sent.method = "GET" /\ sent.body = NoBody
               /\ op = "delete" => sent.method = "DELETE" /\ sent.body = NoBody
               /\ op = "post" => sent.method = "POST"
               /\ op = "put" => sent.method = "PUT"
               /\ op \in {"post", "put"}
                  => sent.body = IF data = UNDEFINED
                                 THEN NoBody
                                 ELSE JSONstringify(data)]_vars

(* C22: when the fetch of login, of a request's first attempt or of its    *)
(* retry rejects, the call rejects with that error in the same step: it    *)
(* issues no further call (no refresh), the persisted tokens stay as they  *)
(* were (nothing cleared, nothing persisted by login) and no navigation    *)
(* is triggered.                                                           *)
C22_TransportFailurePropagates ==
    [][\A c \in Calls :
         ( /\ calls[c].op \in Wrappers \cup {"login"}
           /\ calls'[c] # calls[c]
           /\ \/ calls[c].pc = "fetch1" /\ FirstSeen(c).rejected
              \/ calls[c].pc = "fetch2" /\ RetrySeen(c).rejected )
         => /\ Settled(c)
            /\ last'.op = calls[c].op
            /\ last'.threw
            /\ last'.error = "TypeError"
            /\ last'.nRefresh = calls[c].nRefresh
            /\ last'.nFetch = calls[c].nFetch
            /\ last'.nav = NULL
            /\ store' = store]_vars

C22_Witness ==
    /\ last.op \in Wrappers
    /\ last.retry.rejected
    /\ last.threw
    /\ last.error = "TypeError"
    /\ last.nav = NULL
    /\ last.nRefresh = 1
    /\ store.access_token = last.refresh.body.access
    /\ store.refresh_token # NULL

(* C23: when the dashboard layout mounts it pushes /login exactly if no    *)
(* access_token is persisted at that moment, whatever the refresh_token;   *)
(* once mounted, no later step (a logout or a failed refresh clearing the  *)
(* tokens included) makes it check or push again.                          *)
C23_LayoutGuardAtMount ==
    [][/\ ( ~ui.layout.mounted /\ ui'.layout.mounted )
          => /\ ui'.layout.pushed =
                  IF store.access_token = NULL THEN "/login" ELSE NULL
             /\ store' = store
       /\ ui.layout.mounted => ui'.layout = ui.layout]_vars

C23_Witness ==
    /\ ui.layout.mounted
    /\ ui.layout.pushed = NULL
    /\ store.access_token = NULL
    /\ last.op = "logout"

(* C24: after a logout, and until another operation has finished, the      *)
(* store stays empty unless a login succeeds: no call that was in flight   *)
(* when logout ran persists a token again.                                 *)
C24_LogoutIsFinal ==
    [][last.op = "logout"
       => (store' = EmptyStore \/ LoginGrantedStep)]_vars

(* C25: in every reachable state an access token is persisted only if a    *)
(* refresh token is persisted too.                                         *)
C25_TokenPairInvariant ==
    store.access_token # NULL => store.refresh_token # NULL

(* C26: among requests issued together, a request that returns             *)
(* successfully after a refresh leaves an access token persisted when it   *)
(* returns: the cleanup of a call whose refresh failed has not deleted it. *)
C26_CleanupScopedToFailingCall ==
    [][\A c \in Calls :
         ( /\ calls[c].op \in Wrappers
           /\ Settled(c)
           /\ ~last'.threw
           /\ last'.nRefresh = 1 )
         => store'.access_token # NULL]_vars

(* C27: a submit of the login page sets loading and issues one login with  *)
(* the entered credentials; no other login is issued while it is in        *)
(* flight; when it settles loading is false again, and the page pushes     *)
(* /dashboard exactly if the login succeeded, showing the error message    *)
(* and pushing nothing if it failed.                                       *)
C27_LoginPageFlow ==
    [][/\ ( ~ui.loginPage.loading /\ ui'.loginPage.loading )
          => /\ ui'.loginPage.error = ""
             /\ ui'.loginPage.pushed = NULL
             /\ \E c \in Calls :
                   /\ calls[c].pc = "idle"
                   /\ calls'[c].op = "login"
                   /\ calls'[c].pc = "fetch1"
                   /\ calls'[c].nFetch = 1
                   /\ calls'[c].data =
                        LoginCredentials(ui.loginPage.username, ui.loginPage.password)
                   /\ calls'[c].sent.body = JSONstringify(calls'[c].data)
                   /\ \A d \in Calls \ {c} : calls'[d] = calls[d]
       /\ ui.loginPage.loading
          => \A c \in Calls : calls[c].pc = "idle" => calls'[c].pc = "idle"
       /\ ( ui.loginPage.loading /\ \E c \in Calls : Settled(c) )
          => /\ ~ui'.loginPage.loading
             /\ last'.op = "login"
             /\ IF last'.threw
                THEN /\ ui'.loginPage.error = last'.error
                     /\ ui'.loginPage.error # ""
                     /\ ui'.loginPage.pushed = NULL
                ELSE /\ ui'.loginPage.pushed = "/dashboard"
                     /\ ui'.loginPage.error = ""
       /\ ( ui'.loginPage.pushed # ui.loginPage.pushed /\ ui'.loginPage.pushed # NULL )
          => LoginGrantedStep
       /\ ( ui.loginPage.loading /\ ~ui'.loginPage.loading )
          => \E c \in Calls : Settled(c)]_vars

C27_Witness ==
    /\ last.op = "login"
    /\ last.threw
    /\ last.data = LoginCredentials("bob", "pw")
    /\ ui.loginPage.error = "Invalid credentials"
    /\ ~ui.loginPage.loading
    /\ ui.loginPage.pushed = NULL
    /\ AllIdle

C29_PaginationInvariant ==
    /\ 1 <= ui.listPage.currentPage
    /\ ui.listPage.currentPage <= (IF totalPages > 1 THEN totalPages ELSE 1)
    /\ ui.listPage.length > 0 => paginatedPlans > 0

====
